---- MODULE Spec2Model ----
(***************************************************************************)
(* Model of the two administrative scripts of MTGA-Companion:              *)
(*   scripts/setup_projects.py            (bulk assignment runner, main)   *)
(*   scripts/configure_required_checks.py (ruleset check)                  *)
(* The external tracker reached through the gh client is the state the     *)
(* scripts act on: project membership, milestone and body of each issue,   *)
(* and the ruleset.  Every subprocess.run call is one step; its outcome    *)
(* (exit status, stdout, stderr) is chosen by the transport.               *)
(***************************************************************************)
EXTENDS Integers, Sequences, FiniteSets, TLC

(* ---------------------------------------------------------------- bounds *)
\* Number of times the whole table is run (first run plus re-runs).
MaxRuns == 2
\* Longest rule list of a fetched ruleset.
MaxRules == 3

(* ------------------------------------------------- setup_projects tables *)
milestone_map ==
       "Security Fix" :> 2 @@ "Database Improvements" :> 3
    @@ "Poller Enhancements" :> 4 @@ "Card Metadata Source" :> 5
    @@ "Full Integration" :> 6 @@ "Basic Statistics" :> 7
    @@ "Advanced Analytics" :> 8 @@ "Rank Features" :> 9
    @@ "Draft Storage" :> 10 @@ "Draft Display" :> 11
    @@ "Draft Analytics" :> 12 @@ "Collection Features" :> 13
    @@ "Deck Analysis" :> 14 @@ "Collection-Deck Integration" :> 15
    @@ "GUI Foundation" :> 16 @@ "Statistics GUI" :> 17
    @@ "Charts & Graphs" :> 18 @@ "Advanced GUI Features" :> 19
    @@ "Export Features" :> 20 @@ "External Integration" :> 21

\* project_map in insertion order (a dict keeps it); ProjectId searches it in
\* that order.
project_map ==
    << [name |-> "Security & Infrastructure", number |-> 2, id |-> "PVT_kwHOABsZ684BHe6N"],
       [name |-> "Card Metadata Integration", number |-> 3, id |-> "PVT_kwHOABsZ684BHe6O"],
       [name |-> "Statistics Enhancements", number |-> 4, id |-> "PVT_kwHOABsZ684BHe6P"],
       [name |-> "Draft Features", number |-> 5, id |-> "PVT_kwHOABsZ684BHe6Q"],
       [name |-> "Collection & Deck Management", number |-> 6, id |-> "PVT_kwHOABsZ684BHe6S"],
       [name |-> "Fyne GUI Foundation", number |-> 7, id |-> "PVT_kwHOABsZ684BHe6V"],
       [name |-> "GUI Features", number |-> 8, id |-> "PVT_kwHOABsZ684BHe6W"],
       [name |-> "Export & Integration", number |-> 9, id |-> "PVT_kwHOABsZ684BHe6X"] >>

\* The rows of the assignment table the model runs: the last two rows of
\* project 3 and the row of project 5 that lists issue 118 a second time,
\* with another milestone and another date.
assignments ==
    << [project_num |-> 3,
        issues |-> << [issue_num |-> 79, phase |-> "Phase 2: Integration",
                       milestone |-> "Full Integration", date_str |-> "2025-11-16"],
                      [issue_num |-> 118, phase |-> "Phase 2: Integration",
                       milestone |-> "Full Integration", date_str |-> "2025-11-17"] >>],
       [project_num |-> 5,
        issues |-> << [issue_num |-> 118, phase |-> "Phase 2: Display",
                       milestone |-> "Draft Display", date_str |-> "2026-01-01"] >>] >>

\* The nested loops of main visit the rows in this order, each with the
\* project id computed at the top of the outer loop.
RECURSIVE ProjectIdFrom(_, _)
ProjectIdFrom(project_num, j) ==
    IF project_map[j].number = project_num
    THEN project_map[j].id
    ELSE ProjectIdFrom(project_num, j + 1)

\* A lookup that takes the project number for a position in project_map.
ProjectIdByIndex(project_num) == project_map[project_num].id

ProjectId(project_num) == ProjectIdFrom(project_num, 1)

RECURSIVE Schedule(_)
Schedule(table) ==
    IF table = <<>>
    THEN <<>>
    ELSE [j \in 1..Len(Head(table).issues) |->
            [project_id |-> ProjectId(Head(table).project_num),
             issue_num  |-> Head(table).issues[j].issue_num,
             milestone  |-> Head(table).issues[j].milestone,
             date_str   |-> Head(table).issues[j].date_str]]
         \o Schedule(Tail(table))

Tuples == Schedule(assignments)

RECURSIVE SumLen(_)
SumLen(table) ==
    IF table = <<>> THEN 0 ELSE Len(Head(table).issues) + SumLen(Tail(table))

Issues == {Tuples[t].issue_num : t \in 1..Len(Tuples)}

(* -------------------------------------------------------- issue bodies *)
\* A body is a sequence of pieces: free text, the separator "\n\n" and
\* due-date markers.  The empty sequence is the empty string.
Text == <<"text">>
Blank == <<"\n\n">>
Marker(date_str) == <<"**Due Date:**", date_str>>

\* A test that never finds the marker.
ContainsNever(body_text, date_str) == FALSE

\* A test for a body that is the marker and nothing else.
ContainsWhole(body_text, date_str) == body_text = <<Marker(date_str)>>

Contains(body_text, date_str) ==
    \E j \in 1..Len(body_text) : body_text[j] = Marker(date_str)

NewBody(body_text, date_str) ==
    IF body_text # <<>>
    THEN body_text \o <<Blank, Marker(date_str)>>
    ELSE <<Marker(date_str)>>

\* data.get('body', '') or '': a null body reads as the empty string.
\* A reading that drops the fetched text.
BodyOrEmptyIgnored(field) == <<>>

BodyOrEmpty(field) == IF field.null THEN <<>> ELSE field.text

(* ------------------------------------------------------ error handling *)
\* What gh writes to stderr when it exits non-zero, as word sequences.  The
\* first two are the tracker's reports that the item is already in the project.
ExistsReports ==
    { <<"GraphQL:", "Content", "already", "exists", "in", "this", "project">>,
      <<"Item", "Already", "Added">> }

ErrorReports ==
    { <<"HTTP", "502:", "Bad", "Gateway">>,
      <<"Could", "not", "resolve", "to", "a", "node">> }

LowerWord(w) ==
    CASE w = "Already" -> "already"
      [] w = "Added"   -> "added"
      [] w = "Exists"  -> "exists"
      [] OTHER         -> w

Lower(text) == [j \in 1..Len(text) |-> LowerWord(text[j])]

HasPhrase(text, w1, w2) ==
    \E j \in 1..(Len(text) - 1) : text[j] = w1 /\ text[j + 1] = w2

\* A test that knows only one of the two reports.
AlreadyExistsOnly(stderr) == HasPhrase(Lower(stderr), "already", "exists")

\* The test of add_issue_to_project's except clause.
AlreadyInProject(stderr) ==
    \/ HasPhrase(Lower(stderr), "already", "exists")
    \/ HasPhrase(Lower(stderr), "already", "added")

\* Exception classes raised inside the per-issue try block, and the one a
\* user interrupt raises.  JSONDecodeError stands for every error of reading
\* a reply gh gave with exit status 0 (json.loads, and the KeyError or
\* TypeError of indexing a reply of another shape); str(e) is the class name.
CalledProcessError == "CalledProcessError"
JSONDecodeError == "JSONDecodeError"
KeyboardInterrupt == "KeyboardInterrupt"

\* An except clause for the transport's exit status only.
CaughtProcessErrorsOnly(exc) == exc = CalledProcessError

\* main: except Exception
Caught(exc) == exc \in {CalledProcessError, JSONDecodeError}

\* A set_issue_milestone without its except clause.
MilestoneCatchesNothing(exc) == FALSE

\* set_issue_milestone / set_issue_due_date: except subprocess.CalledProcessError
MilestoneCatches(exc) == exc = CalledProcessError
DueDateCatches(exc) == exc = CalledProcessError

(* ----------------------------------------------------------- the state *)
VARIABLES
    member,         \* external: issue -> set of project ids it is an item of
    milestone,      \* external: issue -> milestone number (0: none)
    body,           \* external: issue -> body text
    run,            \* number of the current run of main
    pc,             \* next external call of main, or how the process ended
    k,              \* index in Tuples of the tuple being handled
    processed,      \* main's counter
    errors,         \* main's failure list
    exitStatus,     \* exit status of the process (-1 while it runs)
    issue_node_id,  \* main's local
    pending,        \* set_issue_due_date's local body, to be written
    calls,          \* external calls issued for the latest tuple of this run
    failed,         \* tuples of this run with a failing external call
    prevClean,      \* the previous run completed and none of its calls failed
    start,          \* external state when the current run started
    initial,        \* external state before the first run
    rpc, response, current, success, rExit, rCalls   \* ruleset script

extVars == <<member, milestone, body>>
mainVars == <<run, pc, k, processed, errors, exitStatus, issue_node_id, pending>>
histVars == <<calls, failed, prevClean, start, initial>>
rulesetVars == <<rpc, response, current, success, rExit, rCalls>>
vars == <<extVars, mainVars, histVars, rulesetVars>>

External == [member |-> member, milestone |-> milestone, body |-> body]

total == SumLen(assignments)

Running == pc \in {"lookup", "add", "milestone", "view", "edit"}

T == Tuples[k]

(* ---------------------------------------------------------------- main *)
NodeId(issue_num) == <<"I_node", issue_num>>
None == <<>>

\* States of the tracker before the first run: no issue has a milestone;
\* issue 79 is in no project and has a body of free text; issue 118 may
\* already be an item of project 5, and its body is empty, free text, or free
\* text followed by the marker of its first row.
InitialMember ==
    {m \in [Issues -> SUBSET {ProjectId(5)}] : m[79] = {}}

InitialMilestone == {[i \in Issues |-> 0]}

InitialBody ==
    {b \in [Issues -> {<<>>, <<Text>>, <<Text, Blank, Marker("2025-11-17")>>}] :
        b[79] = <<Text>>}

InitMain ==
    /\ member \in InitialMember
    /\ milestone \in InitialMilestone
    /\ body \in InitialBody
    /\ run = 1
    /\ pc = "lookup"
    /\ k = 1
    /\ processed = 0
    /\ errors = <<>>
    /\ exitStatus = -1
    /\ issue_node_id = None
    /\ pending = <<>>
    /\ calls = <<>>
    /\ failed = {}
    /\ prevClean = FALSE
    /\ start = External
    /\ initial = External

\* Bookkeeping of one external call: what was issued, how the transport
\* answered ("ok", "exists", "nonzero", "malformed"), and whether the issue
\* was in the project and had the marker when the call was made.
Issue(op, args, status) ==
    /\ calls' = (IF op = "lookup" THEN <<>> ELSE calls)
                    \o << [op |-> op, tuple |-> k, args |-> args, status |-> status,
                           in_project |-> T.project_id \in member[T.issue_num],
                           has_marker |-> Contains(body[T.issue_num], T.date_str)] >>
    /\ failed' = IF status \in {"nonzero", "malformed"}
                 THEN failed \cup {k}
                 ELSE failed
    /\ UNCHANGED <<prevClean, start, initial>>

\* The for loops move to the next row; after the last one main prints the
\* summary and the process ends with status 0.
Advance ==
    IF k < Len(Tuples)
    THEN /\ k' = k + 1
         /\ pc' = "lookup"
         /\ exitStatus' = exitStatus
    ELSE /\ k' = k
         /\ pc' = "done"
         /\ exitStatus' = 0

\* The end of the try block: the tuple is counted.
Counted ==
    /\ processed' = processed + 1
    /\ errors' = errors
    /\ Advance

\* An except block that counts the tuple all the same.
RaiseCounted(exc) ==
    /\ errors' = Append(errors, <<T.issue_num, exc>>)
    /\ processed' = processed + 1
    /\ Advance

\* An exception leaves the try block of main.
Raise(exc) ==
    IF Caught(exc)
    THEN /\ errors' = Append(errors, <<T.issue_num, exc>>)
         /\ processed' = processed
         /\ Advance
    ELSE /\ pc' = "crashed"
         /\ exitStatus' = 1
         /\ UNCHANGED <<k, processed, errors>>

\* The step leaves main's locals of the running tuple as they are.
Continue(next) ==
    /\ pc' = next
    /\ UNCHANGED <<k, processed, errors, exitStatus>>

GetIssueNodeId ==
    /\ pc = "lookup"
    /\ \/ /\ Issue("lookup", <<T.issue_num>>, "ok")
          /\ issue_node_id' = NodeId(T.issue_num)
          /\ Continue("add")
       \/ /\ Issue("lookup", <<T.issue_num>>, "nonzero")
          /\ issue_node_id' = issue_node_id
          /\ Raise(CalledProcessError)
       \/ /\ Issue("lookup", <<T.issue_num>>, "malformed")
          /\ issue_node_id' = issue_node_id
          /\ Raise(JSONDecodeError)
    /\ UNCHANGED <<extVars, run, pending, rulesetVars>>

\* add_issue_to_project.  The tracker reports "already exists" only for an
\* item that exists, and then changes nothing; a mutation it answers with
\* exit status 0 has taken effect, whatever stdout holds.
AddIssueToProject ==
    /\ pc = "add"
    /\ \/ /\ Issue("add", <<T.project_id, issue_node_id>>, "ok")
          /\ member' = [member EXCEPT ![T.issue_num] = @ \cup {T.project_id}]
          /\ Continue("milestone")
       \/ /\ Issue("add", <<T.project_id, issue_node_id>>, "malformed")
          /\ member' = [member EXCEPT ![T.issue_num] = @ \cup {T.project_id}]
          /\ Raise(JSONDecodeError)
       \/ \E stderr \in ExistsReports :
             /\ T.project_id \in member[T.issue_num]
             /\ Issue("add", <<T.project_id, issue_node_id>>, "exists")
             /\ member' = member
             /\ IF AlreadyInProject(stderr)
                THEN Continue("milestone")
                ELSE Raise(CalledProcessError)
       \/ \E stderr \in ErrorReports :
             /\ Issue("add", <<T.project_id, issue_node_id>>, "nonzero")
             /\ member' = member
             /\ IF AlreadyInProject(stderr)
                THEN Continue("milestone")
                ELSE Raise(CalledProcessError)
    /\ UNCHANGED <<milestone, body, run, issue_node_id, pending, rulesetVars>>

SetIssueMilestone ==
    /\ pc = "milestone"
    /\ \/ /\ Issue("milestone", <<T.issue_num, milestone_map[T.milestone]>>, "ok")
          /\ milestone' = [milestone EXCEPT ![T.issue_num] = milestone_map[T.milestone]]
          /\ Continue("view")
       \/ /\ Issue("milestone", <<T.issue_num, milestone_map[T.milestone]>>, "nonzero")
          /\ milestone' = milestone
          /\ IF MilestoneCatches(CalledProcessError)
             THEN Continue("view")
             ELSE Raise(CalledProcessError)
    /\ UNCHANGED <<member, body, run, issue_node_id, pending, rulesetVars>>

\* The body field of a gh issue view reply: the text, or null for no text.
ViewReplies(body_text) ==
    {[null |-> FALSE, text |-> body_text]}
        \cup (IF body_text = <<>> THEN {[null |-> TRUE, text |-> <<>>]} ELSE {})

\* set_issue_due_date up to its first call: gh issue view.
ViewIssueBody ==
    /\ pc = "view"
    /\ \/ \E field \in ViewReplies(body[T.issue_num]) :
             /\ Issue("view", <<T.issue_num>>, "ok")
             /\ IF ~Contains(BodyOrEmpty(field), T.date_str)
                THEN /\ pending' = NewBody(BodyOrEmpty(field), T.date_str)
                     /\ Continue("edit")
                ELSE /\ pending' = pending
                     /\ Counted
       \/ /\ Issue("view", <<T.issue_num>>, "nonzero")
          /\ pending' = pending
          /\ IF DueDateCatches(CalledProcessError)
             THEN Counted
             ELSE Raise(CalledProcessError)
       \/ /\ Issue("view", <<T.issue_num>>, "malformed")
          /\ pending' = pending
          /\ IF DueDateCatches(JSONDecodeError)
             THEN Counted
             ELSE Raise(JSONDecodeError)
    /\ UNCHANGED <<extVars, run, issue_node_id, rulesetVars>>

\* set_issue_due_date from its second call: gh issue edit --body.
EditIssueBody ==
    /\ pc = "edit"
    /\ \/ /\ Issue("edit", <<T.issue_num, pending>>, "ok")
          /\ body' = [body EXCEPT ![T.issue_num] = pending]
          /\ Counted
       \/ /\ Issue("edit", <<T.issue_num, pending>>, "nonzero")
          /\ body' = body
          /\ IF DueDateCatches(CalledProcessError)
             THEN Counted
             ELSE Raise(CalledProcessError)
    /\ UNCHANGED <<member, milestone, run, issue_node_id, pending, rulesetVars>>

\* The user interrupts the process between two external calls: the
\* exception is no Exception, main does not catch it, and the process ends
\* without a summary; what it held in memory is gone.
Abort ==
    /\ Running
    /\ ~Caught(KeyboardInterrupt)
    /\ pc' = "aborted"
    /\ exitStatus' = 130
    /\ k' = 1
    /\ processed' = 0
    /\ errors' = <<>>
    /\ issue_node_id' = None
    /\ pending' = <<>>
    /\ calls' = <<>>
    /\ failed' = {}
    /\ UNCHANGED <<extVars, run, prevClean, start, initial, rulesetVars>>

\* The script is started again on the state the last run left.
Rerun ==
    /\ pc \in {"done", "aborted", "crashed"}
    /\ run < MaxRuns
    /\ run' = run + 1
    /\ pc' = "lookup"
    /\ k' = 1
    /\ processed' = 0
    /\ errors' = <<>>
    /\ exitStatus' = -1
    /\ issue_node_id' = None
    /\ pending' = <<>>
    /\ calls' = <<>>
    /\ failed' = {}
    /\ prevClean' = (pc = "done" /\ failed = {})
    /\ start' = External
    /\ initial' = initial
    /\ UNCHANGED <<extVars, rulesetVars>>

RulesetIdle ==
    /\ rpc = "idle"
    /\ response = None
    /\ current = None
    /\ success = FALSE
    /\ rExit = -1
    /\ rCalls = <<>>

Init == InitMain /\ RulesetIdle

Next ==
    \/ GetIssueNodeId
    \/ AddIssueToProject
    \/ SetIssueMilestone
    \/ ViewIssueBody
    \/ EditIssueBody
    \/ Abort
    \/ Rerun

Spec == Init /\ [][Next]_vars

(* ------------------------------------------- configure_required_checks *)
REPO == "RdHamilton/MTGA-Companion"
RULESET_ID == 9523549

RuleTypes == {"required_status_checks", "pull_request", "deletion"}

\* A rule object: its type, or no "type" key.
Rules == [has_type : {TRUE}, type : RuleTypes] \cup {[has_type |-> FALSE, type |-> ""]}

RuleLists == UNION {[1..n -> Rules] : n \in 0..MaxRules}

\* What json.loads returns for the stdout of gh api: null, or an object
\* with some of the keys "name" and "rules".
JsonNull == [null |-> TRUE, keys |-> {}, rules |-> <<>>]

JsonValues ==
    {JsonNull}
        \cup {[null |-> FALSE, keys |-> ks, rules |-> <<>>] : ks \in {{}, {"name"}}}
        \cup {[null |-> FALSE, keys |-> ks, rules |-> rs] :
                ks \in {{"rules"}, {"name", "rules"}}, rs \in RuleLists}

\* The replies of the transport: exit status and stdout, parseable or not.
Responses ==
    [exit : {0, 1}, parseable : {FALSE}, value : {JsonNull}]
        \cup [exit : {0}, parseable : {TRUE}, value : JsonValues]
        \cup [exit : {1}, parseable : {TRUE}, value : {JsonNull}]

\* run_gh_command: the parsed stdout, or None (which json.loads also
\* returns for null) after CalledProcessError or JSONDecodeError.
RunGhCommand(resp) ==
    IF resp.exit # 0 THEN JsonNull
    ELSE IF ~resp.parseable THEN JsonNull
    ELSE resp.value

\* not current
Falsy(value) == value.null \/ value.keys = {}

\* current.get("rules", [])
GetRules(value) == IF "rules" \in value.keys THEN value.rules ELSE <<>>

\* r.get("type")
GetType(rule) == IF rule.has_type THEN rule.type ELSE "None"

\* A test that looks at the first rule only.
HasRequiredChecksFirst(value) ==
    /\ GetRules(value) # <<>>
    /\ GetType(GetRules(value)[1]) = "required_status_checks"

\* any(r.get("type") == "required_status_checks" for r in ...)
HasRequiredChecks(value) ==
    \E j \in 1..Len(GetRules(value)) :
        GetType(GetRules(value)[j]) = "required_status_checks"

\* get_current_ruleset: the one call of the script, a GET of the ruleset.
GetCurrentRuleset ==
    /\ rpc = "start"
    /\ \E resp \in Responses :
          /\ response' = resp
          /\ current' = RunGhCommand(resp)
    /\ rCalls' = Append(rCalls, [method |-> "GET",
                                 path |-> <<"repos", REPO, "rulesets", RULESET_ID>>])
    /\ rpc' = "fetched"
    /\ UNCHANGED <<success, rExit>>
    /\ UNCHANGED <<extVars, mainVars, histVars>>

\* update_ruleset_with_required_checks after the fetch: it only reports.
UpdateRulesetWithRequiredChecks ==
    /\ rpc = "fetched"
    /\ success' = IF Falsy(current) THEN FALSE ELSE HasRequiredChecks(current)
    /\ rpc' = "returned"
    /\ UNCHANGED <<response, current, rExit, rCalls>>
    /\ UNCHANGED <<extVars, mainVars, histVars>>

\* sys.exit(0 if success else 1)
SysExit ==
    /\ rpc = "returned"
    /\ rExit' = IF success THEN 0 ELSE 1
    /\ rpc' = "exited"
    /\ UNCHANGED <<response, current, success, rCalls>>
    /\ UNCHANGED <<extVars, mainVars, histVars>>

\* The ruleset script runs on its own; main is not running.
MainIdle ==
    /\ member = [i \in Issues |-> {}]
    /\ milestone = [i \in Issues |-> 0]
    /\ body = [i \in Issues |-> <<>>]
    /\ run = 0
    /\ pc = "idle"
    /\ k = 1
    /\ processed = 0
    /\ errors = <<>>
    /\ exitStatus = -1
    /\ issue_node_id = None
    /\ pending = <<>>
    /\ calls = <<>>
    /\ failed = {}
    /\ prevClean = FALSE
    /\ start = External
    /\ initial = External

InitRuleset ==
    /\ MainIdle
    /\ rpc = "start"
    /\ response = [exit |-> 0, parseable |-> TRUE, value |-> JsonNull]
    /\ current = JsonNull
    /\ success = FALSE
    /\ rExit = -1
    /\ rCalls = <<>>

NextRuleset ==
    \/ GetCurrentRuleset
    \/ UpdateRulesetWithRequiredChecks
    \/ SysExit

SpecRuleset == InitRuleset /\ [][NextRuleset]_vars

(* ------------------------------------------------ properties of main *)
Last(cs) == cs[Len(cs)]

Count(seq, x) == Cardinality({j \in 1..Len(seq) : seq[j] = x})

Pieces(seq) == {seq[j] : j \in 1..Len(seq)}

SamePieces(a, b) ==
    /\ Len(a) = Len(b)
    /\ \A x \in Pieces(a) \cup Pieces(b) : Count(a, x) = Count(b, x)

StartsWith(a, b) == Len(b) <= Len(a) /\ SubSeq(a, 1, Len(b)) = b

\* The latest tuple of this run has been handled to its end.
Completed == calls # <<>> /\ pc \in {"lookup", "done"}

\* The calls of one operation among the calls of the latest tuple.
CallsOf(op) == {j \in 1..Len(calls) : calls[j].op = op}

\* The state one uninterrupted run of main leaves when every call succeeds.
ApplyRow(ext, t) ==
    [member |-> [ext.member EXCEPT ![t.issue_num] = @ \cup {t.project_id}],
     milestone |-> [ext.milestone EXCEPT ![t.issue_num] = milestone_map[t.milestone]],
     body |-> [ext.body EXCEPT ![t.issue_num] =
                    IF Contains(@, t.date_str) THEN @ ELSE NewBody(@, t.date_str)]]

RECURSIVE FullRunFrom(_, _)
FullRunFrom(ext, j) ==
    IF j > Len(Tuples) THEN ext ELSE FullRunFrom(ApplyRow(ext, Tuples[j]), j + 1)

FullRun(ext) == FullRunFrom(ext, 1)

\* A re-run has reached the summary and none of its calls failed.
CleanRerunDone == run >= 2 /\ pc = "done" /\ failed = {}

\* C1 as stated: a re-run whose calls all succeed ends, whatever the prior
\* run did, in the state one uninterrupted successful run reaches from the
\* initial state: same projects, same milestone, same body text per issue.
C1_SameEndState == CleanRerunDone => External = FullRun(initial)

\* C1 amended: a re-run whose calls all succeed ends with the projects and
\* the milestone of the uninterrupted run, and with a body that starts with
\* the initial body and holds the same pieces as the uninterrupted run's
\* body; the markers of an issue listed twice may stand in another order.
C1_SameEndStateUpToMarkerOrder ==
    CleanRerunDone =>
        /\ member = FullRun(initial).member
        /\ milestone = FullRun(initial).milestone
        /\ \A i \in Issues :
              /\ SamePieces(body[i], FullRun(initial).body[i])
              /\ StartsWith(body[i], initial.body[i])

\* A re-run after a failed or interrupted run that ends with the markers of
\* issue 118 in another order than the uninterrupted run.
C1_Witness ==
    /\ CleanRerunDone
    /\ ~prevClean
    /\ External # start
    /\ body[118] # FullRun(initial).body[118]

\* The steps of a running main, the user's interrupt left out.
RunStep ==
    \/ GetIssueNodeId
    \/ AddIssueToProject
    \/ SetIssueMilestone
    \/ ViewIssueBody
    \/ EditIssueBody

C2_State ==
    /\ pc # "crashed"
    /\ Running =>
          /\ exitStatus = -1
          /\ processed + Len(errors) = k - 1
          /\ ENABLED RunStep
    /\ pc = "done" =>
          /\ exitStatus = 0
          /\ k = Len(Tuples)
          /\ processed + Len(errors) = total
    /\ (pc = "done" /\ processed = 0) =>
          [j \in 1..Len(errors) |-> errors[j][1]]
              = [j \in 1..Len(Tuples) |-> Tuples[j].issue_num]

C2_LookupStep ==
    (/\ pc = "lookup"
     /\ calls' # <<>>
     /\ Last(calls').tuple = k
     /\ Last(calls').status # "ok")
        => /\ processed' = processed
           /\ Len(errors') = Len(errors) + 1
           /\ Last(errors')[1] = T.issue_num
           /\ pc' \in {"lookup", "done"}

\* C2: whatever calls fail, no error escapes main: while it runs a next
\* call is always possible and every earlier tuple was either counted or
\* recorded, it ends at the summary after the last tuple with exit status 0,
\* and a failing lookup records its tuple, so that a run in which no tuple is
\* counted lists every tuple in the failure list, in table order.
C2_RunCompletes == []C2_State /\ [][C2_LookupStep]_vars

\* A run in which every lookup failed, one of them with unparseable output.
C2_Witness ==
    /\ pc = "done"
    /\ processed = 0
    /\ Len(errors) = total
    /\ Last(calls).op = "lookup"
    /\ \E j \in 1..Len(errors) : errors[j][2] = JSONDecodeError

\* C3 as stated: at the end of main, processed is the number of tuples
\* without a failing call, and the failure list holds exactly the issue
\* numbers of the tuples with a failing call.
C3_ProcessedIsTotalMinusFailed ==
    pc = "done" =>
        /\ processed = total - Cardinality(failed)
        /\ {errors[j][1] : j \in 1..Len(errors)}
              = {Tuples[t].issue_num : t \in failed}

\* C4: the body is written only when the body fetched lacks the marker, and
\* what is written has the marker once; so over all runs, interrupted or
\* failing, no body holds the marker of a row twice.
C4_NoSecondMarker ==
    /\ pc = "edit" =>
          /\ ~Contains(body[T.issue_num], T.date_str)
          /\ Count(pending, Marker(T.date_str)) = 1
    /\ \A j \in CallsOf("edit") : ~calls[j].has_marker
    /\ \A i \in Issues : \A t \in 1..Len(Tuples) :
          Count(body[i], Marker(Tuples[t].date_str)) <= 1

\* A re-run views a body whose marker an earlier run appended, and stops there.
C4_Witness ==
    /\ run >= 2
    /\ Completed
    /\ Last(calls).op = "view"
    /\ Last(calls).status = "ok"
    /\ Last(calls).has_marker
    /\ Count(initial.body[Tuples[Last(calls).tuple].issue_num],
             Marker(Tuples[Last(calls).tuple].date_str)) = 0

\* The latest tuple's project-add found the issue in the project and the
\* transport answered it (with the item, or with the report that it exists).
NoOpAdd(cs) ==
    \E j \in 1..Len(cs) :
        /\ cs[j].op = "add"
        /\ cs[j].in_project
        /\ cs[j].status \in {"ok", "exists"}

C5_StepAsStated ==
    (calls' # <<>> /\ calls' # calls /\ NoOpAdd(calls')) =>
        /\ member' = member
        /\ errors' = errors
        /\ pc = "add" => pc' = "milestone"
        /\ pc = "milestone" => pc' = "view"
        /\ pc = "view" => pc' \in {"edit", "lookup", "done"}
        /\ pc' \in {"lookup", "done"} => processed' = processed + 1

\* C5 as stated: after a project-add on an issue that is in the project,
\* membership stays as it is, the tuple adds no entry to the failure list,
\* the milestone and due-date steps follow, and the tuple is counted.
C5_AlreadyMemberCountsAsSuccess == [][C5_StepAsStated]_vars

C5_StepAmended ==
    (calls' # <<>> /\ calls' # calls /\ NoOpAdd(calls')) =>
        /\ member' = member
        /\ pc = "add" => pc' = "milestone" /\ errors' = errors
        /\ pc = "milestone" => pc' = "view" /\ errors' = errors
        /\ pc = "view" => pc' \in {"edit", "lookup", "done"}
        /\ IF Last(calls').op = "view" /\ Last(calls').status = "malformed"
           THEN /\ errors' = Append(errors, <<T.issue_num, JSONDecodeError>>)
                /\ processed' = processed
           ELSE /\ errors' = errors
                /\ pc' \in {"lookup", "done"} => processed' = processed + 1

\* C5 amended: as stated, except that a body-view reply that cannot be
\* parsed makes the due-date step raise: then the tuple is recorded in the
\* failure list by that step and is not counted.
C5_AlreadyMemberCountsUnlessViewRaises == [][C5_StepAmended]_vars

\* A tuple whose project-add got the report that the item exists, and that
\* went on to the milestone call and the body edit and was counted.
C5_Witness ==
    /\ Completed
    /\ \E j \in CallsOf("add") : calls[j].in_project /\ calls[j].status = "exists"
    /\ CallsOf("milestone") # {}
    /\ Last(calls).op = "edit"
    /\ errors = <<>>
    /\ processed = calls[1].tuple

\* The rows of the table as the source lists them, with the project id and
\* the milestone number written out.
C6_Expected ==
    << [issue |-> 79, project |-> "PVT_kwHOABsZ684BHe6O", number |-> 6, date |-> "2025-11-16"],
       [issue |-> 118, project |-> "PVT_kwHOABsZ684BHe6O", number |-> 6, date |-> "2025-11-17"],
       [issue |-> 118, project |-> "PVT_kwHOABsZ684BHe6Q", number |-> 11, date |-> "2026-01-01"] >>

\* C6: while every call succeeds, each handled tuple got exactly one
\* project-add call with the id of its project, a milestone call with the
\* mapped number that the issue then has, and a body with its marker; at the
\* end processed equals total and the failure list is empty.
C6_AllSucceed ==
    /\ (Completed /\ failed = {}) =>
          /\ Cardinality(CallsOf("add")) = 1
          /\ Cardinality(CallsOf("milestone")) = 1
          /\ \A j \in CallsOf("add") :
                calls[j].args = <<C6_Expected[calls[1].tuple].project,
                                  NodeId(C6_Expected[calls[1].tuple].issue)>>
          /\ \A j \in CallsOf("milestone") :
                calls[j].args = <<C6_Expected[calls[1].tuple].issue,
                                  C6_Expected[calls[1].tuple].number>>
          /\ milestone[C6_Expected[calls[1].tuple].issue] = C6_Expected[calls[1].tuple].number
          /\ C6_Expected[calls[1].tuple].project \in member[C6_Expected[calls[1].tuple].issue]
          /\ Contains(body[C6_Expected[calls[1].tuple].issue], C6_Expected[calls[1].tuple].date)
    /\ (pc = "done" /\ failed = {}) =>
          /\ total = Len(C6_Expected)
          /\ processed = total
          /\ errors = <<>>
          /\ \A t \in 1..Len(C6_Expected) :
                Contains(body[C6_Expected[t].issue], C6_Expected[t].date)

\* A first run without a failing call, from an empty body of issue 118.
C6_Witness ==
    /\ run = 1
    /\ pc = "done"
    /\ failed = {}
    /\ processed = 3
    /\ initial.body[118] = <<>>
    /\ milestone[118] = 11

\* C7: a tuple whose milestone call was issued always gets its body viewed,
\* whether the milestone call failed or not, and its body is written exactly
\* when the view succeeded and showed no marker.
C7_DueDateAfterMilestone ==
    Completed =>
        (CallsOf("milestone") # {} =>
            /\ Cardinality(CallsOf("view")) = 1
            /\ \A j \in CallsOf("view") :
                  (CallsOf("edit") # {}) <=> (calls[j].status = "ok" /\ ~calls[j].has_marker))

\* A tuple whose milestone call failed and whose body was then written.
C7_Witness ==
    /\ Completed
    /\ \E j \in CallsOf("milestone") : calls[j].status = "nonzero"
    /\ Last(calls).op = "edit"
    /\ Last(calls).status = "ok"

\* C9 as stated: in a re-run that follows a complete successful run the
\* tracker is at every point in the state the re-run started in.
C9_RerunChangesNothing == (run >= 2 /\ prevClean) => External = start

\* The milestone numbers the table gives an issue.
MilestonesOf(i) ==
    {milestone_map[Tuples[t].milestone] : t \in {u \in 1..Len(Tuples) : Tuples[u].issue_num = i}}

\* C9 amended: in such a re-run no step changes a project membership or a
\* body, and an issue the table gives one milestone keeps it; an issue the
\* table lists with several milestones gets each of them in turn, and the
\* state is the start state again when the re-run ends without a failure.
C9_RerunRewritesMilestonesOnly ==
    (run >= 2 /\ prevClean) =>
        /\ member = start.member
        /\ body = start.body
        /\ \A i \in Issues :
              /\ milestone[i] \in MilestonesOf(i)
              /\ Cardinality(MilestonesOf(i)) = 1 => milestone[i] = start.milestone[i]
        /\ (pc = "done" /\ failed = {}) => External = start

\* The re-run has set milestone 6 on issue 118, which started it with 11.
C9_Witness ==
    /\ run >= 2
    /\ prevClean
    /\ Running
    /\ start.milestone[118] = 11
    /\ milestone[118] = 6

C10_Step ==
    (/\ pc \in {"lookup", "add"}
     /\ calls' # <<>>
     /\ Last(calls').op = pc
     /\ Last(calls').tuple = k
     /\ Last(calls').status \in {"nonzero", "malformed"})
        => /\ Len(errors') = Len(errors) + 1
           /\ SubSeq(errors', 1, Len(errors)) = errors
           /\ Last(errors')[1] = T.issue_num
           /\ processed' = processed
           /\ milestone' = milestone
           /\ body' = body
           /\ IF k < Len(Tuples)
              THEN pc' = "lookup" /\ k' = k + 1
              ELSE pc' = "done"

\* C10: a failing lookup, or a project-add failing with anything but the
\* report that the item exists, ends the tuple: the next call is the lookup
\* of the next tuple (or main ends), milestone and body are untouched, one
\* entry with the issue number is appended and processed stays.
C10_FailureEndsTuple == [][C10_Step]_vars

\* The project-add of the first tuple failed; the lookup of the second is next.
C10_Witness ==
    /\ pc = "lookup"
    /\ calls # <<>>
    /\ Last(calls).op = "add"
    /\ Last(calls).status = "nonzero"
    /\ k = Last(calls).tuple + 1
    /\ Len(errors) = 1

====
